---- MODULE Spec2Model ----
(***************************************************************************)
(* Deadline normalizer of app/utils/deadline_utils.py.                     *)
(*                                                                         *)
(* normalize_deadline, calculate_end_of_week / _month / _quarter and       *)
(* format_deadline are modelled as operators over strings and datetime     *)
(* records.  The library calls they make (re.search, datetime.replace,     *)
(* datetime + timedelta, datetime.weekday, strftime, ZoneInfo) are         *)
(* modelled by what CPython does, exceptions included: an outcome is       *)
(* either Return(value) or Raise(exception name).                          *)
(***************************************************************************)
EXTENDS Integers, Sequences, FiniteSets, TLC

VARIABLES
    work_end_hour,  \* settings.work_end_hour, the process-wide setting
    clock,          \* number of wall-clock ticks since the process started
    text,           \* the text argument of the calls under study
    ref_datetime,   \* their ref_datetime argument (None when omitted)
    tz,             \* their tz argument
    sent_date,      \* their sent_date argument (None when omitted)
    pc,             \* per caller: "idle", "called" or "done"
    result,         \* per caller: outcome of its last normalize_deadline call
    seen,           \* per caller: the clock and the setting when the body ran,
                    \* and whether another call was in progress then
    helper,         \* the last direct call of a calendar helper, with its outcome
    user_keywords,  \* the rows of table user_keywords of user_settings.db
    settings_call   \* the last call of app/services/user_settings.py

vars == <<work_end_hour, clock, text, ref_datetime, tz, sent_date, pc, result,
          seen, helper, user_keywords, settings_call>>

(***************************************************************************)
(* Python values                                                           *)
(***************************************************************************)

\* Python's None, for an omitted datetime argument.
None == [none |-> TRUE]

\* m.group(n) of a group that took no part in the match.  Matches are taken
\* from lower-cased text, so no captured string equals it.
NoGroup == "None"

Return(v) == [kind |-> "return", value |-> v]

Raise(e) == [kind |-> "raise", value |-> e]

\* A text argument: a str, None, or a value of another type (an int).
Str(s) == [type |-> "str", s |-> s, truthy |-> Len(s) > 0]

NoneText == [type |-> "NoneType", s |-> "", truthy |-> FALSE]

IntText(n) == [type |-> "int", s |-> "", truthy |-> n # 0]

(***************************************************************************)
(* The Gregorian calendar of the datetime module                           *)
(***************************************************************************)

MINYEAR == 1

MAXYEAR == 9999

is_leap(year) == year % 4 = 0 /\ (year % 100 # 0 \/ year % 400 = 0)

\* calendar.monthrange(year, month)[1], and the day range datetime accepts.
days_in_month(year, month) ==
    IF month = 2 THEN (IF is_leap(year) THEN 29 ELSE 28)
    ELSE IF month \in {4, 6, 9, 11} THEN 30 ELSE 31

days_before_year(year) ==
    LET y == year - 1 IN y * 365 + y \div 4 - y \div 100 + y \div 400

RECURSIVE days_before_month(_, _)
days_before_month(year, month) ==
    IF month = 1 THEN 0
    ELSE days_before_month(year, month - 1) + days_in_month(year, month - 1)

toordinal(dt) ==
    days_before_year(dt.year) + days_before_month(dt.year, dt.month) + dt.day

\* datetime.weekday(): Monday = 0 ... Sunday = 6.
weekday(dt) == (toordinal(dt) + 6) % 7

datetime(y, mo, d, h, mi, s, us, tzinfo) ==
    [year |-> y, month |-> mo, day |-> d, hour |-> h, minute |-> mi,
     second |-> s, microsecond |-> us, tzinfo |-> tzinfo]

\* The field check of the datetime constructor, which replace() goes through.
valid_fields(y, mo, d, h, mi) ==
    /\ y \in MINYEAR..MAXYEAR
    /\ mo \in 1..12
    /\ d \in 1..days_in_month(y, mo)
    /\ h \in 0..23
    /\ mi \in 0..59

\* dt.replace(year=, month=, day=, hour=, minute=, second=0, microsecond=0):
\* the new datetime, or ValueError when a field is out of range.
replace(dt, y, mo, d, h, mi) ==
    IF valid_fields(y, mo, d, h, mi)
    THEN Return(datetime(y, mo, d, h, mi, 0, 0, dt.tzinfo))
    ELSE Raise("ValueError")

\* dt.replace(hour=, minute=, second=0, microsecond=0)
replace_time(dt, h, mi) == replace(dt, dt.year, dt.month, dt.day, h, mi)

\* dt.replace(tzinfo=zone): the wall-clock fields are kept as they are.
replace_tzinfo(dt, zone) == [dt EXCEPT !.tzinfo = zone]

next_day(dt) ==
    IF dt.day < days_in_month(dt.year, dt.month) THEN [dt EXCEPT !.day = @ + 1]
    ELSE IF dt.month < 12 THEN [dt EXCEPT !.day = 1, !.month = @ + 1]
    ELSE [dt EXCEPT !.day = 1, !.month = 1, !.year = @ + 1]

RECURSIVE add_days(_, _)
\* dt + timedelta(days=n), n >= 0: wall-clock arithmetic, the time of day and
\* the tzinfo kept; OverflowError past MAXYEAR.
add_days(dt, n) ==
    IF n = 0 THEN Return(dt)
    ELSE IF dt.year = MAXYEAR /\ dt.month = 12 /\ dt.day = 31
         THEN Raise("OverflowError")
         ELSE add_days(next_day(dt), n - 1)

(***************************************************************************)
(* Time zones                                                              *)
(***************************************************************************)

\* The identifiers ZoneInfo(key) accepts here, with their offset from UTC in
\* minutes (zones without daylight saving).  Any other key raises
\* ZoneInfoNotFoundError.
utcoffset(zone) == IF zone = "Asia/Tokyo" THEN 540 ELSE 0

ZoneKeys == {"UTC", "Asia/Tokyo"}

\* try: ZoneInfo(tz) / except Exception: ZoneInfo("UTC")
zone_or_utc(key) == IF key \in ZoneKeys THEN key ELSE "UTC"

\* The instant of an aware datetime as <<day, minute of the day, second,
\* microsecond>> in UTC.
utc_key(dt) ==
    LET m == dt.hour * 60 + dt.minute - utcoffset(dt.tzinfo)
        o == toordinal(dt)
    IN  IF m < 0 THEN <<o - 1, m + 1440, dt.second, dt.microsecond>>
        ELSE <<o, m, dt.second, dt.microsecond>>

wall_key(dt) == <<toordinal(dt), dt.hour * 60 + dt.minute, dt.second, dt.microsecond>>

key_less(a, b) ==
    \/ a[1] < b[1]
    \/ a[1] = b[1] /\ a[2] < b[2]
    \/ a[1] = b[1] /\ a[2] = b[2] /\ a[3] < b[3]
    \/ a[1] = b[1] /\ a[2] = b[2] /\ a[3] = b[3] /\ a[4] < b[4]

\* a < b for two aware datetimes: with the same tzinfo the wall-clock fields
\* are compared, otherwise the instants.
dt_less(a, b) ==
    IF a.tzinfo = b.tzinfo THEN key_less(wall_key(a), wall_key(b))
    ELSE key_less(utc_key(a), utc_key(b))

(***************************************************************************)
(* format_deadline                                                         *)
(***************************************************************************)

month_abbr(m) ==
    <<"Jan", "Feb", "Mar", "Apr", "May", "Jun",
      "Jul", "Aug", "Sep", "Oct", "Nov", "Dec">>[m]

\* A formatter that does not pad: %-d, %-H, %-M.
pad2_unpadded(n) == ToString(n)

\* %d, %H, %M: two digits, zero-padded.
pad2(n) == IF n < 10 THEN "0" \o ToString(n) ELSE ToString(n)

\* dt.strftime("%b %d, %Y, %H:%M") in the C locale; %Y of a year of four
\* digits.
format_deadline(dt) ==
    month_abbr(dt.month) \o " " \o pad2(dt.day) \o ", " \o ToString(dt.year)
        \o ", " \o pad2(dt.hour) \o ":" \o pad2(dt.minute)

(***************************************************************************)
(* Regular expressions: re.search                                          *)
(***************************************************************************)

\* A pattern is a tree of the nodes below; Cat, Alt and Opt keep the order in
\* which the backtracking matcher of the re module tries the alternatives.
Lit(s) == [op |-> "literal", s |-> s]

\* A character class repeated lo..hi times, greedily: \s+, \d{1,2}, [a-z]*.
Rep(class, lo, hi) == [op |-> "repeat", class |-> class, lo |-> lo, hi |-> hi]

\* \b
WB == [op |-> "boundary"]

Cat(rs) == [op |-> "cat", rs |-> rs]

\* a|b|c
Alt(rs) == [op |-> "alt", rs |-> rs]

\* (?:r)? and (r)?
Opt(r) == [op |-> "opt", r |-> r]

\* (r), the n-th capturing group
Grp(n, r) == [op |-> "group", n |-> n, r |-> r]

\* (?<!r)
NotBehind(r) == [op |-> "not_behind", r |-> r]

\* (?!r)
NotAhead(r) == [op |-> "not_ahead", r |-> r]

\* The repeat count of + and *.
MAXREPEAT == 65535

Digits == {"0", "1", "2", "3", "4", "5", "6", "7", "8", "9"}

Letters == {"a", "b", "c", "d", "e", "f", "g", "h", "i", "j", "k", "l", "m",
            "n", "o", "p", "q", "r", "s", "t", "u", "v", "w", "x", "y", "z"}

\* \s
Whitespace == {" ", "\t", "\n", "\r", "\f"}

\* \w after lower-casing
WordChars == Letters \cup Digits \cup {"_"}

\* U+2013, the en dash, written as an ASCII character of its own.
EnDash == "~"

char(s, i) == SubSeq(s, i, i)

Min(a, b) == IF a < b THEN a ELSE b

Max(a, b) == IF a < b THEN b ELSE a

RECURSIVE getwidth(_)
\* The <<least, greatest>> number of characters a pattern can match
\* (sre_parse.SubPattern.getwidth).
getwidth(r) ==
    CASE r.op = "literal" -> <<Len(r.s), Len(r.s)>>
      [] r.op = "repeat" -> <<r.lo, r.hi>>
      [] r.op = "cat" ->
            IF r.rs = <<>> THEN <<0, 0>>
            ELSE LET h == getwidth(Head(r.rs))
                     t == getwidth(Cat(Tail(r.rs)))
                 IN  <<Min(h[1] + t[1], MAXREPEAT), Min(h[2] + t[2], MAXREPEAT)>>
      [] r.op = "alt" ->
            IF Len(r.rs) = 1 THEN getwidth(r.rs[1])
            ELSE LET h == getwidth(Head(r.rs))
                     t == getwidth(Alt(Tail(r.rs)))
                 IN  <<Min(h[1], t[1]), Max(h[2], t[2])>>
      [] r.op = "opt" -> <<0, getwidth(r.r)[2]>>
      [] r.op = "group" -> getwidth(r.r)
      [] OTHER -> <<0, 0>>

RECURSIVE compiles(_)
\* re.compile accepts the pattern: sre_compile raises "look-behind requires
\* fixed-width pattern" for a look-behind whose least and greatest widths
\* differ.
compiles(r) ==
    CASE r.op = "cat" -> \A k \in 1..Len(r.rs) : compiles(r.rs[k])
      [] r.op = "alt" -> \A k \in 1..Len(r.rs) : compiles(r.rs[k])
      [] r.op \in {"opt", "group", "not_ahead"} -> compiles(r.r)
      [] r.op = "not_behind" ->
            compiles(r.r) /\ getwidth(r.r)[1] = getwidth(r.r)[2]
      [] OTHER -> TRUE

is_word(s, i) == i \in 1..Len(s) /\ char(s, i) \in WordChars

RECURSIVE run_length(_, _, _, _)
\* How many of the characters after position i lie in the class, up to hi.
run_length(class, s, i, hi) ==
    IF hi = 0 \/ i >= Len(s) \/ char(s, i + 1) \notin class THEN 0
    ELSE 1 + run_length(class, s, i + 1, hi - 1)

RECURSIVE match(_, _, _, _)
RECURSIVE match_cat(_, _, _, _)
RECURSIVE match_alt(_, _, _, _)
\* The ways pattern r matches s from position i (characters consumed so far)
\* with the groups g, as <<end position, groups>>, in the order in which the
\* backtracking matcher tries them: the first one is the match re reports.
match(r, s, i, g) ==
    CASE r.op = "literal" ->
            IF i + Len(r.s) <= Len(s) /\ SubSeq(s, i + 1, i + Len(r.s)) = r.s
            THEN <<<<i + Len(r.s), g>>>> ELSE <<>>
      [] r.op = "repeat" ->
            LET n == run_length(r.class, s, i, r.hi)
            IN  IF n < r.lo THEN <<>>
                ELSE [k \in 1..(n - r.lo + 1) |-> <<i + n - (k - 1), g>>]
      [] r.op = "boundary" ->
            IF is_word(s, i) # is_word(s, i + 1) THEN <<<<i, g>>>> ELSE <<>>
      [] r.op = "cat" -> match_cat(r.rs, s, <<<<i, g>>>>, 1)
      [] r.op = "alt" -> match_alt(r.rs, s, i, g)
      [] r.op = "opt" -> match(r.r, s, i, g) \o <<<<i, g>>>>
      [] r.op = "group" ->
            LET ms == match(r.r, s, i, g)
            IN  [k \in 1..Len(ms) |->
                    <<ms[k][1], [ms[k][2] EXCEPT ![r.n] = SubSeq(s, i + 1, ms[k][1])]>>]
      [] r.op = "not_ahead" ->
            IF match(r.r, s, i, g) = <<>> THEN <<<<i, g>>>> ELSE <<>>
      [] r.op = "not_behind" ->
            IF \E k \in 0..i : \E j \in 1..Len(match(r.r, s, k, g)) :
                   match(r.r, s, k, g)[j][1] = i
            THEN <<>> ELSE <<<<i, g>>>>

\* The matches of rs[k..] continued from each of the partial matches ms.
match_cat(rs, s, ms, k) ==
    IF k > Len(rs) \/ ms = <<>> THEN ms
    ELSE match_cat(rs, s, match(rs[k], s, Head(ms)[1], Head(ms)[2]), k + 1)
             \o match_cat(rs, s, Tail(ms), k)

match_alt(rs, s, i, g) ==
    IF rs = <<>> THEN <<>>
    ELSE match(Head(rs), s, i, g) \o match_alt(Tail(rs), s, i, g)

MaxGroups == 5

NoMatch == [matched |-> FALSE, groups |-> [n \in 1..MaxGroups |-> NoGroup]]

RECURSIVE search_from(_, _, _)
\* The leftmost match at or after position i, or NoMatch.
search_from(r, s, i) ==
    IF i > Len(s) THEN NoMatch
    ELSE LET ms == match(r, s, i, NoMatch.groups)
         IN  IF ms # <<>> THEN [matched |-> TRUE, groups |-> Head(ms)[2]]
             ELSE search_from(r, s, i + 1)

\* re.search(pattern, string): the pattern is compiled, then searched.
re_search(r, s) ==
    IF compiles(r) THEN Return(search_from(r, s, 0)) ELSE Raise("re.error")

(***************************************************************************)
(* str.strip and str.lower                                                 *)
(***************************************************************************)

RECURSIVE lstrip(_)
lstrip(s) == IF Len(s) > 0 /\ char(s, 1) \in Whitespace THEN lstrip(Tail(s)) ELSE s

RECURSIVE rstrip(_)
rstrip(s) ==
    IF Len(s) > 0 /\ char(s, Len(s)) \in Whitespace
    THEN rstrip(SubSeq(s, 1, Len(s) - 1)) ELSE s

strip(s) == rstrip(lstrip(s))

UpperCase == "ABCDEFGHIJKLMNOPQRSTUVWXYZ"

LowerCase == "abcdefghijklmnopqrstuvwxyz"

lower_char(c) ==
    IF \E k \in 1..26 : char(UpperCase, k) = c
    THEN char(LowerCase, CHOOSE k \in 1..26 : char(UpperCase, k) = c)
    ELSE c

RECURSIVE lower(_)
lower(s) == IF Len(s) = 0 THEN s ELSE lower_char(char(s, 1)) \o lower(Tail(s))

\* int(s) of a string of digits
RECURSIVE int(_)
int(s) ==
    IF Len(s) = 0 THEN 0
    ELSE int(SubSeq(s, 1, Len(s) - 1)) * 10
             + (CHOOSE d \in 0..9 : ToString(d) = char(s, Len(s)))

(***************************************************************************)
(* The patterns of normalize_deadline                                      *)
(***************************************************************************)

\* \s+
S1 == Rep(Whitespace, 1, MAXREPEAT)

\* \s*
S0 == Rep(Whitespace, 0, MAXREPEAT)

\* \s
S == Rep(Whitespace, 1, 1)

\* \bw1\s+w2\s+...\s+wn\b
RECURSIVE spaced(_)
spaced(ws) ==
    IF Len(ws) = 1 THEN <<Lit(ws[1])>>
    ELSE <<Lit(Head(ws)), S1>> \o spaced(Tail(ws))

Words(ws) == Cat(<<WB>> \o spaced(ws) \o <<WB>>)

\* end\s+of\s
EndOf == Cat(<<Lit("end"), S1, Lit("of"), S>>)

\* end\s+of\s+the\s
EndOfThe == Cat(<<Lit("end"), S1, Lit("of"), S1, Lit("the"), S>>)

\* (morning|afternoon|evening|noon|\d)
TimeHint(n) ==
    Grp(n, Alt(<<Lit("morning"), Lit("afternoon"), Lit("evening"), Lit("noon"),
                 Rep(Digits, 1, 1)>>))

ambiguous_patterns ==
    << Cat(<<NotBehind(EndOf), Words(<<"next", "week">>)>>),
       Words(<<"early", "next", "week">>),
       Cat(<<NotBehind(EndOf), Words(<<"later", "this", "month">>)>>),
       Cat(<<NotBehind(EndOf), NotBehind(EndOfThe), Words(<<"this", "quarter">>)>>),
       Words(<<"asap">>),
       Words(<<"immediately">>),
       Words(<<"at", "your", "earliest", "convenience">>),
       Words(<<"around">>),
       Words(<<"sometime">>),
       Words(<<"roughly">>),
       Cat(<<Rep(Digits, 1, MAXREPEAT), Rep({"-", EnDash}, 1, 1),
             Rep(Digits, 1, MAXREPEAT)>>),
       Cat(<<Words(<<"by", "tomorrow">>), NotAhead(Cat(<<S1, TimeHint(1)>>))>>) >>

\* (\d{1,2})(?::(\d{2}))?\s*(am|pm)? with the groups numbered h, h+1, h+2
ClockTime(h) ==
    Cat(<<Grp(h, Rep(Digits, 1, 2)),
          Opt(Cat(<<Lit(":"), Grp(h + 1, Rep(Digits, 2, 2))>>)),
          S0,
          Opt(Grp(h + 2, Alt(<<Lit("am"), Lit("pm")>>)))>>)

\* (?:at\s+)?
OptAt == Opt(Cat(<<Lit("at"), S1>>))

\* (?:by\s+)?
OptBy == Opt(Cat(<<Lit("by"), S1>>))

\* (monday|tuesday|wednesday|thursday|friday|saturday|sunday)
WeekdayName(n) ==
    Grp(n, Alt(<<Lit("monday"), Lit("tuesday"), Lit("wednesday"), Lit("thursday"),
                 Lit("friday"), Lit("saturday"), Lit("sunday")>>))

\* (jan|feb|mar|apr|may|jun|jul|aug|sep|oct|nov|dec)[a-z]*
MonthName(n) ==
    Cat(<<Grp(n, Alt(<<Lit("jan"), Lit("feb"), Lit("mar"), Lit("apr"), Lit("may"),
                       Lit("jun"), Lit("jul"), Lit("aug"), Lit("sep"), Lit("oct"),
                       Lit("nov"), Lit("dec")>>)),
          Rep(Letters, 0, MAXREPEAT)>>)

\* \btoday\s+(?:at\s+)?(\d{1,2})(?::(\d{2}))?\s*(am|pm)?
today_time_pattern1 == Cat(<<WB, Lit("today"), S1, OptAt, ClockTime(1)>>)

\* (?:by\s+)?(\d{1,2})(?::(\d{2}))?\s*(am|pm)?\s+today\b
today_time_pattern2 == Cat(<<OptBy, ClockTime(1), S1, Lit("today"), WB>>)

\* \btoday\b(?!\s+\d)
standalone_today ==
    Cat(<<WB, Lit("today"), WB, NotAhead(Cat(<<S1, Rep(Digits, 1, 1)>>))>>)

eod_patterns ==
    << Words(<<"eod">>), Words(<<"end", "of", "day">>), Words(<<"cob">>),
       Words(<<"close", "of", "business">>), Words(<<"tonight">>) >>

end_of_today_patterns ==
    << Words(<<"end", "of", "today">>), Words(<<"by", "the", "end", "of", "today">>) >>

end_of_tomorrow_patterns ==
    << Words(<<"end", "of", "tomorrow">>),
       Words(<<"by", "the", "end", "of", "tomorrow">>),
       Words(<<"tomorrow", "eod">>) >>

\* (?:end\s+of\s+|by\s+)?(monday|...|sunday)\s+eod\b
end_of_weekday_pattern1 ==
    Cat(<<Opt(Alt(<<Cat(<<Lit("end"), S1, Lit("of"), S1>>), Cat(<<Lit("by"), S1>>)>>)),
          WeekdayName(1), S1, Lit("eod"), WB>>)

\* \bend\s+of\s+(monday|...|sunday)\b
end_of_weekday_pattern2 ==
    Cat(<<WB, Lit("end"), S1, Lit("of"), S1, WeekdayName(1), WB>>)

end_of_this_week_patterns ==
    << Words(<<"end", "of", "this", "week">>),
       Words(<<"by", "the", "end", "of", "this", "week">>),
       Words(<<"eow">>),
       Words(<<"before", "the", "week", "ends">>) >>

end_of_next_week_patterns == << Words(<<"end", "of", "next", "week">>) >>

end_of_this_month_patterns ==
    << Words(<<"end", "of", "this", "month">>),
       Words(<<"by", "the", "end", "of", "this", "month">>) >>

end_of_next_month_patterns ==
    << Words(<<"end", "of", "next", "month">>),
       Words(<<"by", "the", "end", "of", "next", "month">>) >>

end_of_quarter_patterns ==
    << Words(<<"end", "of", "this", "quarter">>),
       Words(<<"end", "of", "the", "quarter">>),
       Words(<<"by", "the", "end", "of", "this", "quarter">>) >>

\* \btomorrow\s+(?:at\s+)?(\d{1,2})(?::(\d{2}))?\s*(am|pm|noon|morning|afternoon|evening)?
tomorrow_time_pattern1 ==
    Cat(<<WB, Lit("tomorrow"), S1, OptAt,
          Grp(1, Rep(Digits, 1, 2)),
          Opt(Cat(<<Lit(":"), Grp(2, Rep(Digits, 2, 2))>>)),
          S0,
          Opt(Grp(3, Alt(<<Lit("am"), Lit("pm"), Lit("noon"), Lit("morning"),
                           Lit("afternoon"), Lit("evening")>>)))>>)

\* (?:by\s+)?(\d{1,2})(?::(\d{2}))?\s*(am|pm)?\s+tomorrow\b
tomorrow_time_pattern2 == Cat(<<OptBy, ClockTime(1), S1, Lit("tomorrow"), WB>>)

\* \btomorrow\s+(morning|noon|afternoon|evening)\b
tomorrow_tod_pattern ==
    Cat(<<WB, Lit("tomorrow"), S1,
          Grp(1, Alt(<<Lit("morning"), Lit("noon"), Lit("afternoon"), Lit("evening")>>)),
          WB>>)

\* (jan|...|dec)[a-z]*\s+(\d{1,2})\s+at\s+(\d{1,2})(?::(\d{2}))?\s*(am|pm)?
date_time_pattern1 ==
    Cat(<<MonthName(1), S1, Grp(2, Rep(Digits, 1, 2)), S1, Lit("at"), S1, ClockTime(3)>>)

\* (jan|...|dec)[a-z]*\s+(\d{1,2})(?:,?\s+|,\s+)(\d{1,2})(?::(\d{2}))?\s*(am|pm)?
date_time_pattern2 ==
    Cat(<<MonthName(1), S1, Grp(2, Rep(Digits, 1, 2)),
          Alt(<<Cat(<<Opt(Lit(",")), S1>>), Cat(<<Lit(","), S1>>)>>),
          ClockTime(3)>>)

\* (jan|...|dec)[a-z]*\s+(\d{1,2})\b
date_only_pattern == Cat(<<MonthName(1), S1, Grp(2, Rep(Digits, 1, 2)), WB>>)

\* (?:by\s+|next\s+)?(monday|...|sunday)(?:\s+(?:at\s+)?(\d{1,2})(?::(\d{2}))?\s*(am|pm)?)?
weekday_pattern1 ==
    Cat(<<Opt(Alt(<<Cat(<<Lit("by"), S1>>), Cat(<<Lit("next"), S1>>)>>)),
          WeekdayName(1),
          Opt(Cat(<<S1, OptAt, ClockTime(2)>>))>>)

\* (?:by\s+)?(\d{1,2})(?::(\d{2}))?\s*(am|pm)?\s+(monday|...|sunday)\b
weekday_pattern2 == Cat(<<OptBy, ClockTime(1), S1, WeekdayName(4), WB>>)

(***************************************************************************)
(* Calendar arithmetic                                                     *)
(***************************************************************************)

\* Continue with F(value) unless the outcome o is an exception, which then
\* propagates.
Bind(o, F(_)) == IF o.kind = "raise" THEN o ELSE F(o.value)

\* calculate_end_of_week(ref_dt, weeks_ahead), reading settings.work_end_hour
calculate_end_of_week(ref_dt, weeks_ahead) ==
    LET current_weekday == weekday(ref_dt)
        friday == 4
        d == (friday - current_weekday) % 7
        days_to_friday == IF d = 0 /\ current_weekday # friday THEN 0 ELSE d
        total_days == days_to_friday + weeks_ahead * 7
    IN  Bind(add_days(ref_dt, total_days),
             LAMBDA target_date : replace_time(target_date, work_end_hour, 0))

RECURSIVE carry_month(_, _)
\* while target_month > 12: target_month -= 12; target_year += 1
carry_month(target_month, target_year) ==
    IF target_month > 12 THEN carry_month(target_month - 12, target_year + 1)
    ELSE <<target_month, target_year>>

\* calculate_end_of_month with the month wrapped past December and the year
\* left as it is.
calculate_end_of_month_no_carry(ref_dt, months_ahead) ==
    LET target_month == ((ref_dt.month + months_ahead - 1) % 12) + 1
        last_day == days_in_month(ref_dt.year, target_month)
    IN  replace(ref_dt, ref_dt.year, target_month, last_day, work_end_hour, 0)

\* calculate_end_of_month(ref_dt, months_ahead), reading settings.work_end_hour
calculate_end_of_month(ref_dt, months_ahead) ==
    LET t == carry_month(ref_dt.month + months_ahead, ref_dt.year)
        target_month == t[1]
        target_year == t[2]
        last_day == days_in_month(target_year, target_month)
    IN  replace(ref_dt, target_year, target_month, last_day, work_end_hour, 0)

\* calculate_end_of_quarter(ref_dt), reading settings.work_end_hour
calculate_end_of_quarter(ref_dt) ==
    LET current_month == ref_dt.month
        e == IF current_month <= 3 THEN <<3, 31>>
             ELSE IF current_month <= 6 THEN <<6, 30>>
             ELSE IF current_month <= 9 THEN <<9, 30>>
             ELSE <<12, 31>>
    IN  replace(ref_dt, ref_dt.year, e[1], e[2], work_end_hour, 0)

(***************************************************************************)
(* normalize_deadline                                                      *)
(***************************************************************************)

\* return format_deadline(deadline), for a deadline that may have raised
formatted(o) == Bind(o, LAMBDA deadline : Return(format_deadline(deadline)))

RECURSIVE any_match(_, _)
\* Whether one of the patterns is found in t, searching them in order and
\* stopping at the first that is found.
any_match(patterns, t) ==
    IF patterns = <<>> THEN Return(FALSE)
    ELSE Bind(re_search(Head(patterns), t),
              LAMBDA m : IF m.matched THEN Return(TRUE)
                         ELSE any_match(Tail(patterns), t))

\* The first of two patterns that is found in t.
first_match(pattern1, pattern2, t) ==
    Bind(re_search(pattern1, t),
         LAMBDA m : IF m.matched THEN Return(m) ELSE re_search(pattern2, t))

\* if modifier == "pm" and hour < 12: hour += 12
\* elif modifier == "am" and hour == 12: hour = 0
apply_modifier(hour, modifier) ==
    IF modifier = "pm" /\ hour < 12 THEN hour + 12
    ELSE IF modifier = "am" /\ hour = 12 THEN 0
    ELSE hour

\* int(m.group(n)) if m.group(n) else 0
minute_of(group) == IF group = NoGroup THEN 0 ELSE int(group)

weekday_number(name) ==
    CASE name = "monday" -> 0 [] name = "tuesday" -> 1 [] name = "wednesday" -> 2
      [] name = "thursday" -> 3 [] name = "friday" -> 4 [] name = "saturday" -> 5
      [] name = "sunday" -> 6

month_number(abbr) ==
    CHOOSE n \in 1..12 : lower(month_abbr(n)) = abbr

\* days_ahead = (target_weekday - current_weekday) % 7; 7 when that is 0
next_weekday(ref, target_weekday) ==
    LET days_ahead == (target_weekday - weekday(ref)) % 7
    IN  add_days(ref, IF days_ahead = 0 THEN 7 ELSE days_ahead)

\* "today" with an explicit time, either order.
today_time_match(c, otherwise) ==
    Bind(first_match(today_time_pattern1, today_time_pattern2, c.text),
         LAMBDA m :
            IF m.matched
            THEN LET hour == apply_modifier(int(m.groups[1]), m.groups[3])
                     minute == minute_of(m.groups[2])
                 IN  formatted(replace_time(c.ref, hour, minute))
            ELSE otherwise)

\* Standalone "today", then the EOD/COB synonyms: today at work_end_hour.
eod(c, otherwise) ==
    Bind(any_match(<<standalone_today>> \o eod_patterns, c.text),
         LAMBDA found :
            IF found THEN formatted(replace_time(c.ref, work_end_hour, 0))
            ELSE otherwise)

end_of_today(c, otherwise) ==
    Bind(any_match(end_of_today_patterns, c.text),
         LAMBDA found :
            IF found THEN formatted(replace_time(c.ref, work_end_hour, 0))
            ELSE otherwise)

end_of_tomorrow(c, otherwise) ==
    Bind(any_match(end_of_tomorrow_patterns, c.text),
         LAMBDA found :
            IF found
            THEN formatted(Bind(add_days(c.ref, 1),
                     LAMBDA tomorrow : replace_time(tomorrow, work_end_hour, 0)))
            ELSE otherwise)

end_of_weekday_match(c, otherwise) ==
    Bind(first_match(end_of_weekday_pattern1, end_of_weekday_pattern2, c.text),
         LAMBDA m :
            IF m.matched
            THEN formatted(Bind(next_weekday(c.ref, weekday_number(m.groups[1])),
                     LAMBDA target_date : replace_time(target_date, work_end_hour, 0)))
            ELSE otherwise)

end_of_this_week(c, otherwise) ==
    Bind(any_match(end_of_this_week_patterns, c.text),
         LAMBDA found :
            IF found THEN formatted(calculate_end_of_week(c.ref, 0)) ELSE otherwise)

end_of_next_week(c, otherwise) ==
    Bind(any_match(end_of_next_week_patterns, c.text),
         LAMBDA found :
            IF found THEN formatted(calculate_end_of_week(c.ref, 1)) ELSE otherwise)

end_of_this_month(c, otherwise) ==
    Bind(any_match(end_of_this_month_patterns, c.text),
         LAMBDA found :
            IF found THEN formatted(calculate_end_of_month(c.ref, 0)) ELSE otherwise)

end_of_next_month(c, otherwise) ==
    Bind(any_match(end_of_next_month_patterns, c.text),
         LAMBDA found :
            IF found THEN formatted(calculate_end_of_month(c.ref, 1)) ELSE otherwise)

end_of_quarter(c, otherwise) ==
    Bind(any_match(end_of_quarter_patterns, c.text),
         LAMBDA found :
            IF found THEN formatted(calculate_end_of_quarter(c.ref)) ELSE otherwise)

\* "tomorrow" with an explicit time, either order.
tomorrow_time_match(c, otherwise) ==
    Bind(first_match(tomorrow_time_pattern1, tomorrow_time_pattern2, c.text),
         LAMBDA m :
            IF m.matched
            THEN LET hour == apply_modifier(int(m.groups[1]), m.groups[3])
                     minute == minute_of(m.groups[2])
                 IN  formatted(Bind(add_days(c.ref, 1),
                         LAMBDA tomorrow : replace_time(tomorrow, hour, minute)))
            ELSE otherwise)

tomorrow_tod_match(c, otherwise) ==
    Bind(re_search(tomorrow_tod_pattern, c.text),
         LAMBDA m :
            IF m.matched
            THEN LET tod == m.groups[1]
                     hour == CASE tod = "morning" -> 9 [] tod = "noon" -> 12
                               [] tod = "afternoon" -> 15 [] tod = "evening" -> 18
                               [] OTHER -> 12
                 IN  formatted(Bind(add_days(c.ref, 1),
                         LAMBDA tomorrow : replace_time(tomorrow, hour, 0)))
            ELSE otherwise)

\* try: deadline = ref_datetime.replace(year=year_ref.year, month=, day=, ...)
\*      if deadline < year_ref: deadline = deadline.replace(year=year + 1)
\* except ValueError: return "TBD"
infer_year(c, month, day, hour, minute) ==
    LET year == c.year_ref.year
        first == replace(c.ref, year, month, day, hour, minute)
        deadline ==
            IF first.kind = "return" /\ dt_less(first.value, c.year_ref)
            THEN replace(first.value, year + 1, month, day, hour, minute)
            ELSE first
    IN  IF deadline.kind = "raise" /\ deadline.value = "ValueError"
        THEN Return("TBD")
        ELSE formatted(deadline)

\* Explicit month and day with a time.
date_time_match(c, otherwise) ==
    Bind(first_match(date_time_pattern1, date_time_pattern2, c.text),
         LAMBDA m :
            IF m.matched
            THEN infer_year(c, month_number(m.groups[1]), int(m.groups[2]),
                            apply_modifier(int(m.groups[3]), m.groups[5]),
                            minute_of(m.groups[4]))
            ELSE otherwise)

\* Explicit month and day without a time.
date_only_match(c, otherwise) ==
    Bind(re_search(date_only_pattern, c.text),
         LAMBDA m :
            IF m.matched
            THEN infer_year(c, month_number(m.groups[1]), int(m.groups[2]),
                            work_end_hour, 0)
            ELSE otherwise)

\* MockMatch(weekday_val, hour_val, minute_val, am_pm_val)
MockMatch(m) ==
    [matched |-> m.matched,
     groups |-> [n \in 1..MaxGroups |->
                    IF n = 1 THEN m.groups[4]
                    ELSE IF n <= 4 THEN m.groups[n - 1] ELSE NoGroup]]

\* Weekday with an optional time: the weekday-first pattern, and the
\* time-first pattern only when that one is not found.
weekday_match(c, otherwise) ==
    Bind(re_search(weekday_pattern1, c.text),
         LAMBDA m1 :
         Bind(IF m1.matched THEN Return(m1)
              ELSE Bind(re_search(weekday_pattern2, c.text),
                        LAMBDA m2 : Return(IF m2.matched THEN MockMatch(m2) ELSE m2)),
         LAMBDA m :
            IF m.matched /\ m.groups[1] # NoGroup
            THEN LET hour_str == m.groups[2]
                     hour == IF hour_str # NoGroup
                             THEN apply_modifier(int(hour_str), m.groups[4])
                             ELSE work_end_hour
                     minute == IF hour_str # NoGroup THEN minute_of(m.groups[3]) ELSE 0
                 IN  formatted(Bind(next_weekday(c.ref, weekday_number(m.groups[1])),
                         LAMBDA target_date : replace_time(target_date, hour, minute)))
            ELSE otherwise))

\* datetime.now(timezone) at wall-clock tick k: the process starts on
\* Saturday Oct 21 2023 at 22:30:15 UTC and a tick is a day long.
utcnow(k) == add_days(datetime(2023, 10, 21, 22, 30, 15, 0, "UTC"), k).value

RECURSIVE add_minutes(_, _)
add_minutes(dt, n) ==
    IF dt.hour * 60 + dt.minute + n >= 1440
    THEN LET t == dt.hour * 60 + dt.minute + n - 1440
         IN  [next_day(dt) EXCEPT !.hour = t \div 60, !.minute = t % 60]
    ELSE LET t == dt.hour * 60 + dt.minute + n
         IN  [dt EXCEPT !.hour = t \div 60, !.minute = t % 60]

now(k, zone) == [add_minutes(utcnow(k), utcoffset(zone)) EXCEPT !.tzinfo = zone]

\* normalize_deadline(text, ref_datetime, tz, sent_date), run when the wall
\* clock shows tick k; settings.work_end_hour is read where the code reads it.
normalize_deadline(text_, ref_datetime_, tz_, sent_date_, k) ==
    IF ~text_.truthy \/ text_.type # "str" THEN Return("TBD")
    ELSE
    LET ref == IF ref_datetime_ = None THEN now(k, zone_or_utc(tz_))
               ELSE IF ref_datetime_.tzinfo = "None"
                    THEN replace_tzinfo(ref_datetime_, zone_or_utc(tz_))
                    ELSE ref_datetime_
        year_ref0 == IF sent_date_ # None THEN sent_date_ ELSE ref
        year_ref == IF year_ref0.tzinfo = "None"
                    THEN replace_tzinfo(year_ref0, ref.tzinfo) ELSE year_ref0
        c == [text |-> lower(strip(text_.s)), ref |-> ref, year_ref |-> year_ref]
    IN  Bind(any_match(ambiguous_patterns, c.text),
             LAMBDA ambiguous :
                IF ambiguous THEN Return("TBD")
                ELSE
                today_time_match(c,
                eod(c,
                end_of_today(c,
                end_of_tomorrow(c,
                end_of_weekday_match(c,
                end_of_this_week(c,
                end_of_next_week(c,
                end_of_this_month(c,
                end_of_next_month(c,
                end_of_quarter(c,
                tomorrow_time_match(c,
                tomorrow_tod_match(c,
                date_time_match(c,
                date_only_match(c,
                weekday_match(c,
                Return("TBD")))))))))))))))))

(***************************************************************************)
(* The process: callers of normalize_deadline and of the calendar helpers, *)
(* the wall clock and the settings object                                  *)
(***************************************************************************)

\* Threads that call normalize_deadline.
Callers == {1, 2}

\* How far the wall clock advances.
MaxTicks == 1

\* Largest weeks_ahead / months_ahead passed to the calendar helpers.
MaxAhead == 1

\* Values of WORK_END_HOUR in the environment; 17 is the default of Settings.
WorkEndHours == {9, 17}

AmbiguousTexts ==
    {"next week", "early next week", "later this month", "this quarter", "ASAP",
     "immediately", "at your earliest convenience", "by tomorrow", "Oct 3-5",
     "October 3~5", "around next Monday", "sometime this week", "roughly Friday",
     "asap, by Oct 3 5pm"}

BlankTexts == {"", "   ", " \t "}

EodTexts ==
    {"EOD", "by EOD", "COB", "close of business", "by end of day", "tonight",
     "today", "by today"}

EndOfTomorrowTexts == {"end of tomorrow", "by the end of tomorrow", "tomorrow EOD"}

EndOfWeekdayTexts ==
    {"end of Friday", "by end of Monday", "Friday EOD", "by Saturday EOD",
     "end of Sunday"}

WeekdayTexts ==
    {"Friday", "by Friday", "Monday", "next Wednesday", "Friday 2pm",
     "Tuesday 10:30am", "by Saturday at 9", "next Sunday 12am", "thursday at 12pm"}

OtherTexts ==
    {"today 3pm", "today 25", "tomorrow noon", "by Oct 3, 5pm", "Feb 30",
     "end of next month", "whenever you can"}

\* A day token and a clock time, in either order.
OrderTexts ==
    {"today 3pm", "3pm today", "by 3pm today", "tomorrow 3pm", "3pm tomorrow",
     "by 4pm tomorrow", "Friday 2pm", "2pm Friday", "by 4pm Friday"}

\* A month and a day that exist in every year, with or without a clock time.
DateTexts ==
    {"by Oct 3, 5pm", "Oct 27 at 10am", "October 10, 17:00", "Oct 21 at 10am",
     "by October 10", "Oct 15", "Dec 31", "Jan 1 at 0:30"}

\* A month and a day that do not exist, or not in the years of the anchors.
BadDateTexts ==
    {"Feb 30", "Feb 30, 5pm", "April 31", "Jun 31 at 9am", "Oct 0", "Feb 29"}

EndOfWeekTexts ==
    {"end of this week", "by the end of this week", "EOW", "before the week ends",
     "end of next week", "by the end of next week"}

EndOfMonthTexts ==
    {"end of this month", "by the end of this month", "end of next month",
     "by the end of next month"}

EndOfQuarterTexts ==
    {"end of this quarter", "end of the quarter", "by the end of this quarter"}

TomorrowTodTexts ==
    {"tomorrow morning", "tomorrow noon", "tomorrow afternoon", "tomorrow evening"}

ByTomorrowTexts ==
    {"by tomorrow", "by tomorrow 3pm", "by tomorrow at 3pm", "by tomorrow morning",
     "by tomorrow noon"}

\* A recognised day or date with a clock time that is no time of day.
InvalidTimeTexts ==
    {"today 25", "today 3:75", "tomorrow 25", "tomorrow at 10:60", "Oct 27 at 25",
     "Oct 27, 10:75", "Friday 25", "Friday 10:61"}

\* Clock times with and without a 12-hour marker.
ClockTexts ==
    {"today 3pm", "today 9am", "today at 14:30", "tomorrow at 3:30pm",
     "today 12pm", "today 12am", "tomorrow 0:15", "Friday 11pm", "Oct 27 at 12am"}

Texts ==
    {NoneText, IntText(0), IntText(5)}
        \cup {Str(s) : s \in BlankTexts \cup AmbiguousTexts \cup EodTexts
                        \cup EndOfTomorrowTexts \cup EndOfWeekdayTexts
                        \cup WeekdayTexts \cup OtherTexts \cup OrderTexts
                        \cup DateTexts \cup BadDateTexts \cup EndOfWeekTexts
                        \cup EndOfMonthTexts \cup EndOfQuarterTexts
                        \cup TomorrowTodTexts \cup ByTomorrowTexts
                        \cup InvalidTimeTexts \cup ClockTexts}

\* Anchors: Saturday Oct 21 2023 10:00 UTC (the one of the tests), a naive
\* Friday Dec 29 2023 and the last evening of February 2024 in Tokyo.
Anchors ==
    {datetime(2023, 10, 21, 10, 0, 0, 0, "UTC"),
     datetime(2023, 12, 29, 18, 45, 30, 0, "None"),
     datetime(2024, 2, 29, 23, 5, 0, 250, "Asia/Tokyo")}

TimeZones == {"UTC", "Asia/Tokyo", "Mars/Phobos"}

\* Sent dates: a naive one, the evening of Oct 3 2023, and one with a time
\* zone, the last evening of 2023 in UTC.
SentDates ==
    {datetime(2023, 10, 3, 17, 0, 0, 0, "None"),
     datetime(2023, 12, 31, 20, 0, 0, 0, "UTC")}

NoCall ==
    [fn |-> "none", dt |-> None, arg |-> 0, work_end_hour |-> 0, out |-> Return("")]

NotRun == [clock |-> 0, work_end_hour |-> 0, concurrent |-> FALSE]

Idle == [c \in Callers |-> "idle"]

NoSettingsCall ==
    [fn |-> "none", user_id |-> "", add_keywords |-> <<>>, remove_keywords |-> <<>>,
     ok |-> TRUE, rows |-> {}]

Init ==
    /\ work_end_hour = 17
    /\ clock = 0
    /\ text \in Texts
    /\ ref_datetime \in Anchors \cup {None}
    /\ tz \in TimeZones
    /\ sent_date \in SentDates \cup {None}
    /\ pc = Idle
    /\ result = [c \in Callers |-> Return("")]
    /\ seen = [c \in Callers |-> NotRun]
    /\ helper = NoCall
    /\ user_keywords = {}
    /\ settings_call = NoSettingsCall

\* A thread enters normalize_deadline(text, ref_datetime, tz, sent_date).
Call(c) ==
    /\ pc[c] # "called"
    /\ pc' = [pc EXCEPT ![c] = "called"]
    /\ UNCHANGED <<work_end_hour, clock, text, ref_datetime, tz, sent_date,
                   result, seen, helper>>
    /\ UNCHANGED <<user_keywords, settings_call>>

\* The body of the call runs, against the wall clock and the settings of
\* that moment, and the call returns or raises.
Body(c) ==
    /\ pc[c] = "called"
    /\ pc' = [pc EXCEPT ![c] = "done"]
    /\ result' = [result EXCEPT
                    ![c] = normalize_deadline(text, ref_datetime, tz, sent_date, clock)]
    /\ seen' = [seen EXCEPT
                  ![c] = [clock |-> clock, work_end_hour |-> work_end_hour,
                          concurrent |-> \E o \in Callers \ {c} : pc[o] = "called"]]
    /\ UNCHANGED <<work_end_hour, clock, text, ref_datetime, tz, sent_date, helper>>
    /\ UNCHANGED <<user_keywords, settings_call>>

\* Time passes.
Tick ==
    /\ clock < MaxTicks
    /\ clock' = clock + 1
    /\ UNCHANGED <<work_end_hour, text, ref_datetime, tz, sent_date, pc, result,
                   seen, helper>>
    /\ UNCHANGED <<user_keywords, settings_call>>

\* settings.work_end_hour is set to another value.
Reconfigure(h) ==
    /\ h # work_end_hour
    /\ work_end_hour' = h
    /\ UNCHANGED <<clock, text, ref_datetime, tz, sent_date, pc, result, seen,
                   helper>>
    /\ UNCHANGED <<user_keywords, settings_call>>

\* The datetime handed to a calendar helper: the supplied anchor, or the
\* current time.
anchor == IF ref_datetime = None THEN now(clock, zone_or_utc(tz)) ELSE ref_datetime

Record(fn, arg, out) ==
    /\ helper' = [fn |-> fn, dt |-> anchor, arg |-> arg,
                  work_end_hour |-> work_end_hour, out |-> out]
    /\ UNCHANGED <<work_end_hour, clock, text, ref_datetime, tz, sent_date, pc,
                   result, seen>>
    /\ UNCHANGED <<user_keywords, settings_call>>

\* Direct calls of the calendar helpers and of format_deadline.
EndOfWeek(weeks_ahead) ==
    Record("calculate_end_of_week", weeks_ahead,
           calculate_end_of_week(anchor, weeks_ahead))

EndOfMonth(months_ahead) ==
    Record("calculate_end_of_month", months_ahead,
           calculate_end_of_month(anchor, months_ahead))

EndOfQuarter == Record("calculate_end_of_quarter", 0, calculate_end_of_quarter(anchor))

Format == Record("format_deadline", 0, Return(format_deadline(anchor)))

\* deadline = calculate_end_of_...(...); format_deadline(deadline): the
\* datetime a helper returned is formatted.
FormatResult ==
    /\ helper.fn \in {"calculate_end_of_week", "calculate_end_of_month",
                      "calculate_end_of_quarter"}
    /\ helper.out.kind = "return"
    /\ helper' = [fn |-> "format_deadline", dt |-> helper.out.value, arg |-> 0,
                  work_end_hour |-> work_end_hour,
                  out |-> Return(format_deadline(helper.out.value))]
    /\ UNCHANGED <<work_end_hour, clock, text, ref_datetime, tz, sent_date, pc,
                   result, seen>>
    /\ UNCHANGED <<user_keywords, settings_call>>

Next ==
    \/ \E c \in Callers : Call(c)
    \/ \E c \in Callers : Body(c)
    \/ Tick
    \/ \E h \in WorkEndHours : Reconfigure(h)

Spec == Init /\ [][Next]_vars

\* The calendar helpers called on their own, with no text involved.
InitCalendar == Init /\ text = NoneText /\ sent_date = None

NextCalendar ==
    \/ \E n \in 0..MaxAhead : EndOfWeek(n)
    \/ \E n \in 0..MaxAhead : EndOfMonth(n)
    \/ EndOfQuarter
    \/ Format
    \/ FormatResult
    \/ Tick
    \/ \E h \in WorkEndHours : Reconfigure(h)

SpecCalendar == InitCalendar /\ [][NextCalendar]_vars

(***************************************************************************)
(* app/services/user_settings.py: the keywords of a user, kept in table     *)
(* user_keywords (user_id, term, weight, scope) with primary key            *)
(* (user_id, term).  Every statement runs on a connection of its own and is *)
(* committed at once; the route that calls update_user_settings runs it on  *)
(* the event loop, one call at a time.                                      *)
(***************************************************************************)

\* Longest add_keywords and remove_keywords lists of a call.
MaxAdd == 2

MaxRemove == 1

Users == {"test_user_crud_456", "other_user"}

Terms == {"urgent", "critical"}

\* The dicts a caller passes in add_keywords, each with term, weight, scope.
KeywordUpdates ==
    {[term |-> "urgent", weight |-> "High", scope |-> "subject"],
     [term |-> "urgent", weight |-> "Low", scope |-> "body"],
     [term |-> "critical", weight |-> "High", scope |-> "body"]}

\* The lists of at most n of the given elements.
Lists(elements, n) == UNION {[1..k -> elements] : k \in 0..n}

Row(user_id, term, weight, scope) ==
    [user_id |-> user_id, term |-> term, weight |-> weight, scope |-> scope]

\* PRIMARY KEY (user_id, term)
primary_key(table) ==
    \A r1, r2 \in table : r1.user_id = r2.user_id /\ r1.term = r2.term => r1 = r2

\* The tables init_db() may find: CREATE TABLE IF NOT EXISTS keeps the rows
\* of earlier runs.
Tables ==
    {table \in SUBSET {Row(u, k.term, k.weight, k.scope) :
                            u \in Users, k \in KeywordUpdates} : primary_key(table)}

\* SELECT term, weight, scope FROM user_keywords WHERE user_id = ?; the rows
\* come in no stated order.
get_user_keywords(table, user_id) ==
    {[term |-> r.term, weight |-> r.weight, scope |-> r.scope] :
        r \in {x \in table : x.user_id = user_id}}

\* INSERT OR REPLACE INTO user_keywords (user_id, term, weight, scope).  The
\* weights are the texts of KeywordUpdate, none of them a numeric literal,
\* which column weight REAL stores as they are given.
add_keyword(table, user_id, term, weight, scope) ==
    {r \in table : ~(r.user_id = user_id /\ r.term = term)}
        \cup {Row(user_id, term, weight, scope)}

\* DELETE FROM user_keywords WHERE user_id = ? AND term = ?
remove_keyword(table, user_id, term) ==
    {r \in table : ~(r.user_id = user_id /\ r.term = term)}

RECURSIVE add_keywords_loop(_, _, _)
\* for keyword in add_keywords: add_keyword(user_id, keyword['term'], ...)
add_keywords_loop(table, user_id, add_keywords) ==
    IF add_keywords = <<>> THEN table
    ELSE add_keywords_loop(
            add_keyword(table, user_id, Head(add_keywords).term,
                        Head(add_keywords).weight, Head(add_keywords).scope),
            user_id, Tail(add_keywords))

RECURSIVE remove_keywords_loop(_, _, _)
\* for term in remove_keywords: remove_keyword(user_id, term)
remove_keywords_loop(table, user_id, remove_keywords) ==
    IF remove_keywords = <<>> THEN table
    ELSE remove_keywords_loop(remove_keyword(table, user_id, Head(remove_keywords)),
                              user_id, Tail(remove_keywords))

\* update_user_settings with the two loops in the other order.
update_user_settings_remove_first(table, user_id, add_keywords, remove_keywords) ==
    add_keywords_loop(remove_keywords_loop(table, user_id, remove_keywords),
                      user_id, add_keywords)

\* The table update_user_settings(user_id, add_keywords, remove_keywords)
\* leaves.  With dicts that hold term, weight and scope and a table that
\* exists no statement raises, and the function returns True.
update_user_settings(table, user_id, add_keywords, remove_keywords) ==
    remove_keywords_loop(add_keywords_loop(table, user_id, add_keywords),
                         user_id, remove_keywords)

UpdateUserSettings(user_id, add_keywords, remove_keywords) ==
    /\ user_keywords' = update_user_settings(user_keywords, user_id, add_keywords,
                                             remove_keywords)
    /\ settings_call' = [fn |-> "update_user_settings", user_id |-> user_id,
                         add_keywords |-> add_keywords,
                         remove_keywords |-> remove_keywords,
                         ok |-> TRUE, rows |-> {}]
    /\ UNCHANGED <<work_end_hour, clock, text, ref_datetime, tz, sent_date, pc,
                   result, seen, helper>>

GetUserKeywords(user_id) ==
    /\ settings_call' = [fn |-> "get_user_keywords", user_id |-> user_id,
                         add_keywords |-> <<>>, remove_keywords |-> <<>>,
                         ok |-> TRUE,
                         rows |-> get_user_keywords(user_keywords, user_id)]
    /\ UNCHANGED <<work_end_hour, clock, text, ref_datetime, tz, sent_date, pc,
                   result, seen, helper, user_keywords>>

\* The module is imported: init_db() finds the table of an earlier run or
\* creates it empty.
InitSettings ==
    /\ work_end_hour = 17
    /\ clock = 0
    /\ text = NoneText
    /\ ref_datetime = None
    /\ tz = "UTC"
    /\ sent_date = None
    /\ pc = Idle
    /\ result = [c \in Callers |-> Return("")]
    /\ seen = [c \in Callers |-> NotRun]
    /\ helper = NoCall
    /\ user_keywords \in Tables
    /\ settings_call = NoSettingsCall

NextSettings ==
    \/ \E user_id \in Users :
        \E add_keywords \in Lists(KeywordUpdates, MaxAdd) :
            \E remove_keywords \in Lists(Terms, MaxRemove) :
                UpdateUserSettings(user_id, add_keywords, remove_keywords)
    \/ \E user_id \in Users : GetUserKeywords(user_id)

SpecSettings == InitSettings /\ [][NextSettings]_vars

(***************************************************************************)
(* Properties                                                              *)
(***************************************************************************)

done(c) == pc[c] = "done"

returned(c) == result[c].kind = "return"

\* The anchor a finished call resolved against: the supplied ref_datetime,
\* or the wall clock at the moment its body ran.
anchor_of(c) ==
    IF ref_datetime = None THEN now(seen[c].clock, zone_or_utc(tz)) ELSE ref_datetime

\* "Mon DD, YYYY, HH:mm" of the date n days after dt's date, at hour:minute.
days_after(dt, n, hour, minute) ==
    Return(format_deadline([add_days(dt, n).value EXCEPT !.hour = hour,
                                                         !.minute = minute]))

\* 1..7 days from the weekday of dt to the next target weekday.
days_until(dt, target) ==
    IF (target - weekday(dt)) % 7 = 0 THEN 7 ELSE (target - weekday(dt)) % 7

\* The text, stripped and lower-cased, is found by one of the patterns of the
\* ambiguity list (look-behinds of any width taken as written).
is_ambiguous(s) ==
    \E k \in DOMAIN ambiguous_patterns :
        search_from(ambiguous_patterns[k], lower(strip(s)), 0).matched

\* C1: a call whose text matches a pattern of the ambiguity list returns
\* "TBD", whatever else the text holds and whatever the context.
C1_AmbiguousIsTBD ==
    \A c \in Callers :
        done(c) /\ text.type = "str" /\ text.truthy /\ is_ambiguous(text.s)
            => result[c] = Return("TBD")

\* C2: normalize_deadline is total: every call returns a string, no call
\* ends in an exception.
C2_NoExceptionEscapes ==
    \A c \in Callers : done(c) => returned(c)

\* C3: absent, empty, whitespace-only and non-string text returns "TBD".
C3_BlankIsTBD ==
    \A c \in Callers :
        done(c) /\ (text.type # "str" \/ strip(text.s) = "")
            => result[c] = Return("TBD")

\* C4: two calls with the same text and context, run under the same work-end
\* hour, return the same string; with an anchor supplied this holds whatever
\* the wall clock showed at each call.
C4_SameArgumentsSameString ==
    \A a, b \in Callers :
        /\ done(a) /\ done(b)
        /\ seen[a].work_end_hour = seen[b].work_end_hour
        /\ (ref_datetime # None \/ seen[a].clock = seen[b].clock)
        => returned(a) /\ returned(b) /\ result[a] = result[b]

\* C5: the work-end hour is an input of the call, not process-wide state: a
\* helper called again with the same datetime and the same argument gives
\* the same result, whatever happened to settings.work_end_hour in between.
C5_WorkEndHourFromTheCall ==
    [][(/\ helper.fn # "none"
        /\ helper'.fn = helper.fn
        /\ helper'.dt = helper.dt
        /\ helper'.arg = helper.arg) => helper'.out = helper.out]_vars

\* C6: a call that ran while another call was in progress returns the value
\* the same call returns when it runs alone.
C6_InterleavingInvisible ==
    \A a, b \in Callers :
        done(a) /\ done(b) /\ seen[a].concurrent /\ ~seen[b].concurrent
            => returned(a) /\ returned(b) /\ result[a] = result[b]

\* C7: a bare EOD / COB / "close of business" / "end of day" / "tonight" /
\* "today" resolves to the anchor's date at work_end_hour:00.
C7_EodIsAnchorDateAtWorkEnd ==
    \A c \in Callers :
        done(c) /\ text \in {Str(s) : s \in EodTexts}
            => result[c] = days_after(anchor_of(c), 0, seen[c].work_end_hour, 0)

\* C8: "end of tomorrow", "by the end of tomorrow" and "tomorrow EOD" resolve
\* to the day after the anchor's date at work_end_hour:00.
C8_EndOfTomorrowIsNextDay ==
    \A c \in Callers :
        done(c) /\ text \in {Str(s) : s \in EndOfTomorrowTexts}
            => result[c] = days_after(anchor_of(c), 1, seen[c].work_end_hour, 0)

\* The weekday each text of EndOfWeekdayTexts names.
EndOfWeekdayCases ==
    {<<"end of Friday", 4>>, <<"by end of Monday", 0>>, <<"Friday EOD", 4>>,
     <<"by Saturday EOD", 5>>, <<"end of Sunday", 6>>}

\* C9: "end of <weekday>" and "<weekday> EOD" resolve to the next occurrence
\* of the weekday, 1 to 7 days after the anchor's date, at work_end_hour:00.
C9_EndOfWeekdayIsNextOccurrence ==
    \A c \in Callers : \A case \in EndOfWeekdayCases :
        done(c) /\ text = Str(case[1])
            => result[c] = days_after(anchor_of(c), days_until(anchor_of(c), case[2]),
                                      seen[c].work_end_hour, 0)

\* The weekday and the clock time each text of WeekdayTexts names; hour -1
\* stands for no clock time.
WeekdayCases ==
    {<<"Friday", 4, -1, 0>>, <<"by Friday", 4, -1, 0>>, <<"Monday", 0, -1, 0>>,
     <<"next Wednesday", 2, -1, 0>>, <<"Friday 2pm", 4, 14, 0>>,
     <<"Tuesday 10:30am", 1, 10, 30>>, <<"by Saturday at 9", 5, 9, 0>>,
     <<"next Sunday 12am", 6, 0, 0>>, <<"thursday at 12pm", 3, 12, 0>>}

\* C10: a weekday, with or without "by"/"next" and a clock time, resolves to
\* the date 1 to 7 days after the anchor's date that falls on that weekday,
\* at the clock time given or at work_end_hour:00.
C10_WeekdayIsNextOccurrence ==
    \A c \in Callers : \A case \in WeekdayCases :
        done(c) /\ text = Str(case[1])
            => result[c] =
                days_after(anchor_of(c), days_until(anchor_of(c), case[2]),
                           IF case[3] = -1 THEN seen[c].work_end_hour ELSE case[3],
                           case[4])

\* The anchor of a finished call with its time zone attached: a naive
\* ref_datetime is read in the zone of the call, UTC when tz is unknown.
aware_anchor_of(c) ==
    IF anchor_of(c).tzinfo = "None"
    THEN replace_tzinfo(anchor_of(c), zone_or_utc(tz)) ELSE anchor_of(c)

\* The sent instant of a finished call: sent_date, read in the anchor's zone
\* when it has none of its own, or the anchor when no sent_date is given.
sent_instant_of(c) ==
    IF sent_date = None THEN aware_anchor_of(c)
    ELSE IF sent_date.tzinfo = "None"
         THEN replace_tzinfo(sent_date, aware_anchor_of(c).tzinfo)
         ELSE sent_date

\* Days from dt to a day token: -1 is today, -2 is tomorrow, 0..6 a weekday.
day_offset(dt, day) ==
    IF day = -1 THEN 0 ELSE IF day = -2 THEN 1 ELSE days_until(dt, day)

\* The day token and the clock time each text of OrderTexts names.
OrderCases ==
    {<<"today 3pm", -1, 15, 0>>, <<"3pm today", -1, 15, 0>>,
     <<"by 3pm today", -1, 15, 0>>, <<"tomorrow 3pm", -2, 15, 0>>,
     <<"3pm tomorrow", -2, 15, 0>>, <<"by 4pm tomorrow", -2, 16, 0>>,
     <<"Friday 2pm", 4, 14, 0>>, <<"2pm Friday", 4, 14, 0>>,
     <<"by 4pm Friday", 4, 16, 0>>}

\* C11: a day token (today, tomorrow, a weekday) and a clock time resolve to
\* the day's date at that time, whether the day or the time comes first and
\* with or without a leading "by".
C11_SurfaceOrderIsIrrelevant ==
    \A c \in Callers : \A case \in OrderCases :
        done(c) /\ text = Str(case[1])
            => result[c] = days_after(anchor_of(c), day_offset(anchor_of(c), case[2]),
                                      case[3], case[4])

\* The month, the day and the clock time each text of DateTexts names; hour
\* -1 stands for no clock time.
DateCases ==
    {<<"by Oct 3, 5pm", 10, 3, 17, 0>>, <<"Oct 27 at 10am", 10, 27, 10, 0>>,
     <<"October 10, 17:00", 10, 10, 17, 0>>, <<"Oct 21 at 10am", 10, 21, 10, 0>>,
     <<"by October 10", 10, 10, -1, 0>>, <<"Oct 15", 10, 15, -1, 0>>,
     <<"Dec 31", 12, 31, -1, 0>>, <<"Jan 1 at 0:30", 1, 1, 0, 30>>}

\* The month and day at hour:minute in the year of the sent instant s, in the
\* zone of the anchor a.
candidate(a, s, month, day, hour, minute) ==
    [a EXCEPT !.year = s.year, !.month = month, !.day = day, !.hour = hour,
              !.minute = minute, !.second = 0, !.microsecond = 0]

\* The candidate, one year later if and only if it is strictly earlier than
\* the sent instant.
rolled_forward(cand, s) ==
    IF dt_less(cand, s) THEN [cand EXCEPT !.year = s.year + 1] ELSE cand

\* C12: an explicit month and day resolve in the year of the sent instant, at
\* the clock time given or at work_end_hour:00, and one year later exactly
\* when that candidate is strictly earlier than the sent instant.
C12_YearRollsForwardOnlyWhenPast ==
    \A c \in Callers : \A case \in DateCases :
        done(c) /\ text = Str(case[1])
            => result[c] =
                Return(format_deadline(rolled_forward(
                    candidate(aware_anchor_of(c), sent_instant_of(c), case[2], case[3],
                              IF case[4] = -1 THEN seen[c].work_end_hour ELSE case[4],
                              case[5]),
                    sent_instant_of(c))))

\* C13: a month and day that do not exist in the year they are built in
\* return "TBD" and raise nothing.
C13_ImpossibleDateIsTBD ==
    \A c \in Callers :
        done(c) /\ text \in {Str(s) : s \in BadDateTexts}
            => result[c] = Return("TBD")

\* The length of a month by the calendar's rule: February has 29 days in
\* years divisible by 4 and not by 100, or divisible by 400.
last_day(year, month) ==
    IF month = 2
    THEN IF (year % 4 = 0 /\ year % 100 # 0) \/ year % 400 = 0 THEN 29 ELSE 28
    ELSE IF month \in {4, 6, 9, 11} THEN 30 ELSE 31

\* dt at hour:00 sharp on the given date.
at_work_end(dt, year, month, day, hour) ==
    [dt EXCEPT !.year = year, !.month = month, !.day = day, !.hour = hour,
               !.minute = 0, !.second = 0, !.microsecond = 0]

\* The last day of the month n months after dt's month, at hour:00.
last_day_of_month(dt, n, hour) ==
    LET year == dt.year + (dt.month + n - 1) \div 12
        month == ((dt.month + n - 1) % 12) + 1
    IN  at_work_end(dt, year, month, last_day(year, month), hour)

\* The last day of dt's quarter, in dt's year, at hour:00.
last_day_of_quarter(dt, hour) ==
    IF dt.month \in 1..3 THEN at_work_end(dt, dt.year, 3, 31, hour)
    ELSE IF dt.month \in 4..6 THEN at_work_end(dt, dt.year, 6, 30, hour)
    ELSE IF dt.month \in 7..9 THEN at_work_end(dt, dt.year, 9, 30, hour)
    ELSE at_work_end(dt, dt.year, 12, 31, hour)

\* Days from dt to the Friday of the week n weeks ahead: none when dt is a
\* Friday and n = 0.
days_to_friday(dt, n) == ((4 - weekday(dt)) % 7) + 7 * n

\* The Friday n weeks ahead of dt, at hour:00.
friday_of_week(dt, n, hour) ==
    [add_days(dt, days_to_friday(dt, n)).value
        EXCEPT !.hour = hour, !.minute = 0, !.second = 0, !.microsecond = 0]

\* months_ahead of each text of EndOfMonthTexts.
EndOfMonthCases ==
    {<<"end of this month", 0>>, <<"by the end of this month", 0>>,
     <<"end of next month", 1>>, <<"by the end of next month", 1>>}

\* C14: "end of this month" / "end of next month" resolve to the last
\* calendar day of the month 0 / 1 months after the anchor's, carried into the
\* next year past December, February by the leap-year rule, at
\* work_end_hour:00.
C14_EndOfMonthIsLastDay ==
    \A c \in Callers : \A case \in EndOfMonthCases :
        done(c) /\ text = Str(case[1])
            => result[c] = Return(format_deadline(
                    last_day_of_month(anchor_of(c), case[2], seen[c].work_end_hour)))

\* C14, the helper called on its own: calculate_end_of_month(ref_dt,
\* months_ahead) is the last day of that month at work_end_hour:00.
EndOfMonthHelperIsLastDay ==
    helper.fn = "calculate_end_of_month"
        => helper.out = Return(last_day_of_month(helper.dt, helper.arg,
                                                 helper.work_end_hour))

\* C15: "end of this quarter" and "end of the quarter" resolve to Mar 31,
\* Jun 30, Sep 30 or Dec 31 of the anchor's year, by the anchor's month, at
\* work_end_hour:00.
C15_EndOfQuarterIsBoundary ==
    \A c \in Callers :
        done(c) /\ text \in {Str(s) : s \in EndOfQuarterTexts}
            => result[c] = Return(format_deadline(
                    last_day_of_quarter(anchor_of(c), seen[c].work_end_hour)))

\* C15, the helper called on its own.
EndOfQuarterHelperIsBoundary ==
    helper.fn = "calculate_end_of_quarter"
        => helper.out = Return(last_day_of_quarter(helper.dt, helper.work_end_hour))

\* weeks_ahead of each text of EndOfWeekTexts.
EndOfWeekCases ==
    {<<"end of this week", 0>>, <<"by the end of this week", 0>>, <<"EOW", 0>>,
     <<"before the week ends", 0>>, <<"end of next week", 1>>,
     <<"by the end of next week", 1>>}

\* C16: "end of this week" / "EOW" / "before the week ends" resolve to the
\* Friday on or after the anchor's date (the anchor's own date only on a
\* Friday), "end of next week" to the Friday 7 days after that one, at
\* work_end_hour:00.
C16_EndOfWeekIsFriday ==
    \A c \in Callers : \A case \in EndOfWeekCases :
        done(c) /\ text = Str(case[1])
            => result[c] = Return(format_deadline(
                    friday_of_week(anchor_of(c), case[2], seen[c].work_end_hour)))

\* C16, the helper called on its own: the result is the anchor's own date
\* only when weeks_ahead = 0 on a Friday.
EndOfWeekHelperIsFriday ==
    helper.fn = "calculate_end_of_week"
        => /\ helper.out = Return(friday_of_week(helper.dt, helper.arg,
                                                 helper.work_end_hour))
           /\ weekday(helper.out.value) = 4
           /\ (toordinal(helper.out.value) = toordinal(helper.dt)
                 <=> helper.arg = 0 /\ weekday(helper.dt) = 4)

\* The hour each text of TomorrowTodTexts names.
TomorrowTodCases ==
    {<<"tomorrow morning", 9>>, <<"tomorrow noon", 12>>,
     <<"tomorrow afternoon", 15>>, <<"tomorrow evening", 18>>}

\* C17: "tomorrow" with a named time of day resolves to the day after the
\* anchor's date at 09:00, 12:00, 15:00 or 18:00, whatever work_end_hour and
\* the anchor's clock time.
C17_TomorrowTimeOfDay ==
    \A c \in Callers : \A case \in TomorrowTodCases :
        done(c) /\ text = Str(case[1])
            => result[c] = days_after(anchor_of(c), 1, case[2], 0)

\* The hour each text of ByTomorrowTexts names; -1 stands for no time.
ByTomorrowCases ==
    {<<"by tomorrow", -1>>, <<"by tomorrow 3pm", 15>>, <<"by tomorrow at 3pm", 15>>,
     <<"by tomorrow morning", 9>>, <<"by tomorrow noon", 12>>}

\* C18: "by tomorrow" is "TBD" exactly when neither a clock time nor a time
\* of day comes with it; with one it resolves to the day after the anchor's
\* date at that time.
C18_ByTomorrowNeedsATime ==
    \A c \in Callers : \A case \in ByTomorrowCases :
        done(c) /\ text = Str(case[1])
            => result[c] = IF case[2] = -1 THEN Return("TBD")
                           ELSE days_after(anchor_of(c), 1, case[2], 0)

\* The vague spans on their own.
VagueSpanTexts == {"next week", "later this month", "this quarter"}

\* The spans preceded by "end of" / "end of the", and the helper and argument
\* each resolves through.
EndOfSpanCases ==
    {<<"end of next week", "week", 1>>, <<"by the end of next week", "week", 1>>,
     <<"end of this month", "month", 0>>, <<"by the end of this month", "month", 0>>,
     <<"end of next month", "month", 1>>, <<"by the end of next month", "month", 1>>,
     <<"end of this quarter", "quarter", 0>>,
     <<"by the end of this quarter", "quarter", 0>>,
     <<"end of the quarter", "quarter", 0>>}

end_of_span(dt, span, n, hour) ==
    IF span = "week" THEN friday_of_week(dt, n, hour)
    ELSE IF span = "month" THEN last_day_of_month(dt, n, hour)
    ELSE last_day_of_quarter(dt, hour)

\* C19: "next week", "later this month" and "this quarter" are "TBD" on
\* their own; preceded by "end of" / "end of the" they are not, and resolve
\* to the end of next week, of this or next month, or of the quarter.
C19_EndOfSpanIsNotAmbiguous ==
    \A c \in Callers :
        /\ done(c) /\ text \in {Str(s) : s \in VagueSpanTexts}
            => result[c] = Return("TBD")
        /\ \A case \in EndOfSpanCases :
            done(c) /\ text = Str(case[1])
                => result[c] = Return(format_deadline(
                        end_of_span(anchor_of(c), case[2], case[3],
                                    seen[c].work_end_hour)))

\* C20: a call with an unknown time zone identifier returns a string, the
\* one the same call returns with tz "UTC".
C20_UnknownZoneIsUTC ==
    \A c \in Callers :
        done(c) /\ tz \notin ZoneKeys /\ work_end_hour = seen[c].work_end_hour
            => /\ returned(c)
               /\ result[c] = normalize_deadline(text, ref_datetime, "UTC", sent_date,
                                                 seen[c].clock)

MonthAbbreviations ==
    <<"Jan", "Feb", "Mar", "Apr", "May", "Jun",
      "Jul", "Aug", "Sep", "Oct", "Nov", "Dec">>

all_digits(s) == \A i \in 1..Len(s) : char(s, i) \in Digits

\* The fields written in a string laid out as "Mon DD, YYYY, HH:mm".
written_month(s) == CHOOSE m \in 1..12 : MonthAbbreviations[m] = SubSeq(s, 1, 3)
written_day(s) == int(SubSeq(s, 5, 6))
written_year(s) == int(SubSeq(s, 9, 12))
written_hour(s) == int(SubSeq(s, 15, 16))
written_minute(s) == int(SubSeq(s, 18, 19))

\* "Mon DD, YYYY, HH:mm" and nothing more: an English month abbreviation, a
\* day of that month and year, a four-digit year, a 24-hour time.
canonical(s) ==
    /\ Len(s) = 19
    /\ \E m \in 1..12 : MonthAbbreviations[m] = SubSeq(s, 1, 3)
    /\ SubSeq(s, 4, 4) = " "
    /\ all_digits(SubSeq(s, 5, 6))
    /\ SubSeq(s, 7, 8) = ", "
    /\ all_digits(SubSeq(s, 9, 12))
    /\ SubSeq(s, 13, 14) = ", "
    /\ all_digits(SubSeq(s, 15, 16))
    /\ SubSeq(s, 17, 17) = ":"
    /\ all_digits(SubSeq(s, 18, 19))
    /\ written_day(s) \in 1..last_day(written_year(s), written_month(s))
    /\ written_hour(s) \in 0..23
    /\ written_minute(s) \in 0..59

DefaultWorkEndHour == 17

\* C22: with the default configuration an expression without a clock time
\* resolves to 23:59 of its date: EOD / COB / "today" / "tonight" on the
\* anchor's date, a bare weekday on its next occurrence, a month and day in
\* the year the year inference gives.
C22_NoClockTimeIsEndOfDay ==
    \A c \in Callers :
        done(c) /\ seen[c].work_end_hour = DefaultWorkEndHour
            => /\ text \in {Str(s) : s \in EodTexts}
                    => result[c] = days_after(anchor_of(c), 0, 23, 59)
               /\ \A case \in WeekdayCases :
                    text = Str(case[1]) /\ case[3] = -1
                        => result[c] = days_after(anchor_of(c),
                                                  days_until(anchor_of(c), case[2]),
                                                  23, 59)
               /\ \A case \in DateCases :
                    text = Str(case[1]) /\ case[4] = -1
                        => result[c] =
                            Return(format_deadline(rolled_forward(
                                candidate(aware_anchor_of(c), sent_instant_of(c),
                                          case[2], case[3], 23, 59),
                                sent_instant_of(c))))

\* What a rule hands on when it does not match.
Unmatched == Return("no rule matched")

\* The text, the anchor and the sent instant a finished call worked on.
context_of(c) ==
    [text |-> lower(strip(text.s)), ref |-> aware_anchor_of(c),
     year_ref |-> sent_instant_of(c)]

\* Rule i of the cascade on its own, in the order of the specification.
rule_alone(i, x) ==
    CASE i = 1 -> today_time_match(x, Unmatched)
      [] i = 2 -> eod(x, Unmatched)
      [] i = 3 -> end_of_today(x, Unmatched)
      [] i = 4 -> end_of_tomorrow(x, Unmatched)
      [] i = 5 -> end_of_weekday_match(x, Unmatched)
      [] i = 6 -> end_of_this_week(x, Unmatched)
      [] i = 7 -> end_of_next_week(x, Unmatched)
      [] i = 8 -> end_of_this_month(x, Unmatched)
      [] i = 9 -> end_of_next_month(x, Unmatched)
      [] i = 10 -> end_of_quarter(x, Unmatched)
      [] i = 11 -> tomorrow_time_match(x, Unmatched)
      [] i = 12 -> tomorrow_tod_match(x, Unmatched)
      [] i = 13 -> date_time_match(x, Unmatched)
      [] i = 14 -> date_only_match(x, Unmatched)
      [] i = 15 -> weekday_match(x, Unmatched)

\* The result of the lowest-numbered rule that matches, "TBD" when none does.
first_rule(x) ==
    IF \A i \in 1..15 : rule_alone(i, x) = Unmatched THEN Return("TBD")
    ELSE rule_alone(CHOOSE i \in 1..15 :
                        /\ rule_alone(i, x) # Unmatched
                        /\ \A j \in 1..(i - 1) : rule_alone(j, x) = Unmatched, x)

\* C23: for a text that is not ambiguous the result is the one of the
\* lowest-numbered rule that matches, alone: "today 3pm" is 15:00 by rule 1,
\* not work_end_hour:00 by rule 2.
C23_FirstMatchingRuleWins ==
    \A c \in Callers :
        /\ done(c) /\ text = Str("today 3pm")
            => result[c] = days_after(anchor_of(c), 0, 15, 0)
        /\ done(c) /\ text.type = "str" /\ text.truthy /\ ~is_ambiguous(text.s)
                   /\ work_end_hour = seen[c].work_end_hour
            => result[c] = first_rule(context_of(c))

\* C24: a recognised expression with an hour above 23 or a minute above 59
\* returns "TBD", in the today, tomorrow, month-and-day and weekday rules.
C24_InvalidClockTimeIsTBD ==
    \A c \in Callers :
        done(c) /\ text \in {Str(s) : s \in InvalidTimeTexts}
            => result[c] = Return("TBD")

\* The day token (as for day_offset) and the time of day each text of
\* ClockTexts with a relative day names.
ClockCases ==
    {<<"today 3pm", -1, 15, 0>>, <<"today 9am", -1, 9, 0>>,
     <<"today at 14:30", -1, 14, 30>>, <<"tomorrow at 3:30pm", -2, 15, 30>>,
     <<"today 12pm", -1, 12, 0>>, <<"today 12am", -1, 0, 0>>,
     <<"tomorrow 0:15", -2, 0, 15>>, <<"Friday 11pm", 4, 23, 0>>}

\* C27: "pm" adds 12 to the hours 1-11 and leaves 12, "12am" is hour 0, "am"
\* leaves 1-11, a time without marker is a 24-hour value, a missing minute
\* is 0, in the today, tomorrow, weekday and month-and-day rules.
C27_TwelveHourMarker ==
    \A c \in Callers :
        /\ \A case \in ClockCases :
            done(c) /\ text = Str(case[1])
                => result[c] = days_after(anchor_of(c),
                                          day_offset(anchor_of(c), case[2]),
                                          case[3], case[4])
        /\ done(c) /\ text = Str("Oct 27 at 12am")
            => result[c] = Return(format_deadline(rolled_forward(
                    candidate(aware_anchor_of(c), sent_instant_of(c), 10, 27, 0, 0),
                    sent_instant_of(c))))

\* Texts resolved from the anchor alone: relative days, weekdays and ends of
\* periods.
RelativeTexts ==
    EodTexts \cup EndOfTomorrowTexts \cup EndOfWeekdayTexts \cup WeekdayTexts
        \cup OrderTexts \cup EndOfWeekTexts \cup EndOfMonthTexts
        \cup EndOfQuarterTexts \cup TomorrowTodTexts

\* C25: the year of an explicit month and day is inferred against the anchor
\* when no sent_date is given, against sent_date read in the anchor's zone
\* when it has none, against sent_date as given when it has one; the rules
\* for relative days, weekdays and ends of periods do not look at sent_date.
C25_SentInstantDefaults ==
    \A c \in Callers :
        LET a == aware_anchor_of(c)
            s == IF sent_date = None THEN a
                 ELSE IF sent_date.tzinfo = "None"
                      THEN [sent_date EXCEPT !.tzinfo = a.tzinfo]
                      ELSE sent_date
        IN  /\ \A case \in DateCases :
                done(c) /\ text = Str(case[1])
                    => result[c] =
                        Return(format_deadline(rolled_forward(
                            candidate(a, s, case[2], case[3],
                                      IF case[4] = -1 THEN seen[c].work_end_hour
                                      ELSE case[4],
                                      case[5]), s)))
            /\ done(c) /\ text \in {Str(t) : t \in RelativeTexts}
                       /\ work_end_hour = seen[c].work_end_hour
                => result[c] = normalize_deadline(text, ref_datetime, tz, None,
                                                  seen[c].clock)

\* The datetime a canonical string writes, in the given zone.
written(s, zone) ==
    datetime(written_year(s), written_month(s), written_day(s), written_hour(s),
             written_minute(s), 0, 0, zone)

\* Texts for the "tomorrow" rules (4, 11, 12) and the weekday rules (5, 15).
ForwardTexts ==
    {"end of tomorrow", "by the end of tomorrow", "end of Friday",
     "by end of Monday", "end of Sunday", "tomorrow 3pm", "3pm tomorrow",
     "by 4pm tomorrow", "tomorrow 0:15", "tomorrow at 3:30pm", "Friday 11pm"}
        \cup TomorrowTodTexts \cup WeekdayTexts

C29_NeverBeforeTheAnchorDate ==
    /\ helper.fn \in {"calculate_end_of_week", "calculate_end_of_month",
                      "calculate_end_of_quarter"}
        => /\ helper.out.kind = "return"
           /\ toordinal(helper.out.value) >= toordinal(helper.dt)
    /\ \A c \in Callers :
        done(c) /\ returned(c) /\ result[c].value # "TBD" /\ sent_date = None
            => /\ canonical(result[c].value)
               /\ toordinal(written(result[c].value, "UTC"))
                    >= toordinal(anchor_of(c))

\* End of next month asked on Dec 29 2023: the result is in the next year.
C29_Witness ==
    /\ helper.fn = "calculate_end_of_month"
    /\ helper.arg = 1
    /\ helper.dt.month = 12
    /\ helper.out.kind = "return"
    /\ helper.out.value.year = helper.dt.year + 1
    /\ toordinal(helper.out.value) > toordinal(helper.dt)

(***************************************************************************)
(* C30                                                                     *)
(***************************************************************************)

added_terms(add_keywords) == {add_keywords[i].term : i \in DOMAIN add_keywords}

removed_terms(remove_keywords) == {remove_keywords[i] : i \in DOMAIN remove_keywords}

stored_terms(table, user_id) == {k.term : k \in get_user_keywords(table, user_id)}

\* The dict of the last element of add_keywords that names the term.
last_written(add_keywords, term) ==
    LET last == CHOOSE i \in DOMAIN add_keywords :
                    /\ add_keywords[i].term = term
                    /\ \A j \in DOMAIN add_keywords :
                            add_keywords[j].term = term => j <= i
    IN  [term |-> term, weight |-> add_keywords[last].weight,
         scope |-> add_keywords[last].scope]

one_entry_per_term(keywords) ==
    \A k1, k2 \in keywords : k1.term = k2.term => k1 = k2

====
